---------------------------- MODULE Spec2Model ----------------------------
(***************************************************************************)
(* A model of the large_table crate: the cell type Value (src/src/value.rs)*)
(* the memory-mapped LargeTable (src/src/lib.rs), the owned RowTable and   *)
(* its slices (src/src/row_table.rs), the Row trait (src/src/row.rs) and   *)
(* the MMapTable loader (src/src/mmap_table.rs).                           *)
(*                                                                         *)
(* A field text is a sequence of one-character strings, so that the        *)
(* character scans of Value::new can be computed as the code computes them.*)
(***************************************************************************)
EXTENDS Integers, Sequences, FiniteSets, TLC

VARIABLES
    columns,      \* RowTableInner.columns : sequence of column names
    rows,         \* RowTableInner.rows    : sequence of rows of Values
    slice,        \* the live RowTableSlice held by the caller, or NoSlice
    ret,          \* what the last RowTable / RowTableSlice call returned
    lt_columns,   \* LargeTableInner.columns
    lt_rows,      \* LargeTable.rows : per row, the field texts its offsets select
    lt_from,      \* the call that returned the LargeTable the caller now works on
    lt_ret,       \* what the last loader or LargeTable call returned
    par,          \* the parallel scan in progress on the LargeTable, or Idle
    file,         \* the delimited file the loaders are given
    raw,          \* the text a Value is made from
    val_ret,      \* what the last call on Value returned
    scene         \* "mapped": a file and its LargeTable; "owned": a RowTable;
                  \* "value": a text and the Values made from it

rowVars   == <<columns, rows, slice, ret>>
largeVars == <<lt_columns, lt_rows, lt_from, lt_ret, par, file>>
valueVars == <<raw, val_ret>>
vars      == <<scene, columns, rows, slice, ret, lt_columns, lt_rows, lt_from, lt_ret, par,
               file, raw, val_ret>>

-----------------------------------------------------------------------------
(* Bounds of the model. *)

\* most data records in a file / rows in a table
MaxRows == 3

\* most characters of a text a Value is made from
MaxLen == 3

-----------------------------------------------------------------------------
(* Sequence helpers. *)

Range(s) == {s[i] : i \in 1..Len(s)}

\* Vec::iter().position(|c| c == x): the first 1-based index holding x, 0 for None
Position(s, x) ==
    IF \E i \in 1..Len(s) : s[i] = x
    THEN CHOOSE i \in 1..Len(s) : s[i] = x /\ \A j \in 1..(i - 1) : s[j] # x
    ELSE 0

\* all sequences over S of length 0..n
SeqsUpTo(S, n) == UNION {[1..k -> S] : k \in 0..n}

\* the 0-based range lo..hi-1 collected into a Vec, as (lo..hi).collect()
RangeVec(lo, hi) == [k \in 1..(IF hi > lo THEN hi - lo ELSE 0) |-> lo + k - 1]

-----------------------------------------------------------------------------
(* Characters. *)

Digits == {"0", "1", "2", "3", "4", "5", "6", "7", "8", "9"}

DigitVal(c) ==
    CASE c = "0" -> 0 [] c = "1" -> 1 [] c = "2" -> 2 [] c = "3" -> 3
      [] c = "4" -> 4 [] c = "5" -> 5 [] c = "6" -> 6 [] c = "7" -> 7
      [] c = "8" -> 8 [] c = "9" -> 9

\* the byte order of the characters the model uses (ASCII)
CharCode(c) ==
    CASE c = " " -> 32 [] c = "-" -> 45 [] c = "." -> 46 [] c = "/" -> 47
      [] c \in Digits -> 48 + DigitVal(c)
      [] c = ":" -> 58 [] c = "h" -> 104 [] c = "x" -> 120
      [] OTHER -> 127

\* the characters Value::new accepts in a date-time candidate without counting them
DtPlainChars == Digits \cup {" ", "p", "P", "a", "A", "m", "M", "T", "Z"}
DtSeparators == {"-", "/", ":"}

-----------------------------------------------------------------------------
(* Value (src/src/value.rs).  A Value is a record with a tag; a Float is    *)
(* held exactly as n / 10^e in lowest decimal form, which is how the short  *)
(* decimal texts of the model convert to f64 and compare as OrderedFloat.   *)

VString(t)   == [tag |-> "String",  s |-> t,    n |-> 0, e |-> 0]
VInteger(i)  == [tag |-> "Integer", s |-> <<>>, n |-> i, e |-> 0]
VFloatRaw(m, d) == [tag |-> "Float", s |-> <<>>, n |-> m, e |-> d]
VEmpty       == [tag |-> "Empty",   s |-> <<>>, n |-> 0, e |-> 0]
\* a date, time or date-time: n packs the fields the parser returned
VDateTime(k) == [tag |-> "DateTime", s |-> <<>>, n |-> k, e |-> 0]
VDate(k)     == [tag |-> "Date",     s |-> <<>>, n |-> k, e |-> 0]
VTime(k)     == [tag |-> "Time",     s |-> <<>>, n |-> k, e |-> 0]

RECURSIVE Pow10(_)
Pow10(k) == IF k = 0 THEN 1 ELSE 10 * Pow10(k - 1)

RECURSIVE VFloat(_, _)
\* m / 10^d with trailing decimal zeros removed: equal f64 values get one form
VFloat(m, d) ==
    IF m = 0 THEN VFloatRaw(0, 0)
    ELSE IF d > 0 /\ m % 10 = 0 THEN VFloat(m \div 10, d - 1)
    ELSE VFloatRaw(m, d)

\* the declaration order of the enum, which #[derive(Ord)] compares first
VariantIndex(v) ==
    CASE v.tag = "String" -> 0 [] v.tag = "DateTime" -> 1 [] v.tag = "Date" -> 2
      [] v.tag = "Time" -> 3 [] v.tag = "Integer" -> 4 [] v.tag = "Float" -> 5
      [] v.tag = "Empty" -> 6

IntCmp(a, b) == IF a < b THEN "Less" ELSE IF a > b THEN "Greater" ELSE "Equal"

RECURSIVE TextCmp(_, _)
\* str::cmp: lexicographic on the bytes
TextCmp(a, b) ==
    IF a = <<>> /\ b = <<>> THEN "Equal"
    ELSE IF a = <<>> THEN "Less"
    ELSE IF b = <<>> THEN "Greater"
    ELSE IF CharCode(Head(a)) # CharCode(Head(b))
         THEN IntCmp(CharCode(Head(a)), CharCode(Head(b)))
    ELSE TextCmp(Tail(a), Tail(b))

\* Ord for Value, as derived: by variant, then by the payload
ValueCmp(a, b) ==
    IF VariantIndex(a) # VariantIndex(b)
    THEN IntCmp(VariantIndex(a), VariantIndex(b))
    ELSE CASE a.tag = "String" -> TextCmp(a.s, b.s)
           [] a.tag = "Float"  -> IntCmp(a.n * Pow10(b.e), b.n * Pow10(a.e))
           [] a.tag = "Empty"  -> "Equal"
           [] OTHER            -> IntCmp(a.n, b.n)

ValueLeq(a, b) == ValueCmp(a, b) # "Greater"

RECURSIVE CountOrNone(_, _, _)
\* chars().try_fold(0, ...): the number of characters of Counted, or -1 (None)
\* as soon as a character is in neither Counted nor Plain
CountOrNone(t, Counted, Plain) ==
    IF t = <<>> THEN 0
    ELSE IF Head(t) \notin (Counted \cup Plain) THEN -1
    ELSE LET rest == CountOrNone(Tail(t), Counted, Plain)
         IN  IF rest = -1 THEN -1
             ELSE rest + (IF Head(t) \in Counted THEN 1 ELSE 0)

RECURSIVE DigitsValue(_, _)
\* the number a run of decimal digits denotes, acc being the digits read so far
DigitsValue(t, acc) ==
    IF t = <<>> THEN acc ELSE DigitsValue(Tail(t), 10 * acc + DigitVal(Head(t)))

AllDigits(t) == \A k \in 1..Len(t) : t[k] \in Digits

\* str::parse::<i64>: an optional sign and at least one digit, in range.  Every
\* number of at most 18 digits is in the range of i64; the texts of the model are
\* shorter than that.
ParseI64(t) ==
    LET signed == t # <<>> /\ Head(t) \in {"-", "+"}
        body   == IF signed THEN Tail(t) ELSE t
        mag    == DigitsValue(body, 0)
        val    == IF signed /\ Head(t) = "-" THEN 0 - mag ELSE mag
    IN  IF body # <<>> /\ AllDigits(body) /\ Len(body) <= 18
        THEN [ok |-> TRUE, v |-> val]
        ELSE [ok |-> FALSE, v |-> 0]

\* str::parse::<f64> on the decimal texts of the model: an optional sign, digits
\* with at most one '.', and at least one digit
ParseF64(t) ==
    LET signed == t # <<>> /\ Head(t) \in {"-", "+"}
        body   == IF signed THEN Tail(t) ELSE t
        dot    == Position(body, ".")
        whole  == IF dot = 0 THEN body ELSE SubSeq(body, 1, dot - 1)
        frac   == IF dot = 0 THEN <<>> ELSE SubSeq(body, dot + 1, Len(body))
        mag    == DigitsValue(whole \o frac, 0)
        val    == IF signed /\ Head(t) = "-" THEN 0 - mag ELSE mag
    IN  IF AllDigits(whole) /\ AllDigits(frac) /\ Len(whole) + Len(frac) > 0
        THEN [ok |-> TRUE, v |-> VFloat(val, Len(frac))]
        ELSE [ok |-> FALSE, v |-> VEmpty]

\* The date dtparse::parse fills in when the text names none: the day of the call.
DefaultYear  == 2020
DefaultMonth == 1
DefaultDay   == 2

\* dtparse::parse, an external parser, on the two date-time shapes the model's
\* texts can take: a clock time "h:mm" of digits around one ':', which gets the
\* default date, and an ISO date-time "yyyy-mm-ddThh:mm" with a day every month
\* has.  Every other text of the model is refused.  The result is a
\* NaiveDateTime, field by field.
DtparseParse(t) ==
    LET colon == Position(t, ":")
        hh    == SubSeq(t, 1, colon - 1)
        mm    == SubSeq(t, colon + 1, Len(t))
        num(a, b) == DigitsValue(SubSeq(t, a, b), 0)
        iso   == /\ Len(t) = 16
                 /\ t[5] = "-" /\ t[8] = "-" /\ t[11] = "T" /\ t[14] = ":"
                 /\ \A k \in (1..16) \ {5, 8, 11, 14} : t[k] \in Digits
                 /\ num(6, 7) \in 1..12 /\ num(9, 10) \in 1..28
                 /\ num(12, 13) < 24 /\ num(15, 16) < 60
        fail  == [ok |-> FALSE, year |-> 0, month |-> 0, day |-> 0,
                  hour |-> 0, minute |-> 0, second |-> 0]
    IN  IF iso
        THEN [ok |-> TRUE, year |-> num(1, 4), month |-> num(6, 7), day |-> num(9, 10),
              hour |-> num(12, 13), minute |-> num(15, 16), second |-> 0]
        ELSE IF /\ colon > 0
                /\ hh # <<>> /\ mm # <<>> /\ AllDigits(hh) /\ AllDigits(mm)
                /\ Len(hh) <= 2 /\ Len(mm) = 2
                /\ DigitsValue(hh, 0) < 24 /\ DigitsValue(mm, 0) < 60
        THEN [ok |-> TRUE, year |-> DefaultYear, month |-> DefaultMonth,
              day |-> DefaultDay, hour |-> DigitsValue(hh, 0),
              minute |-> DigitsValue(mm, 0), second |-> 0]
        ELSE fail

\* NaiveDate and NaiveTime as numbers that order as chrono orders them; the years
\* are counted from 2000, which keeps the key of a date-time within 32 bits
DateKey(dt) == ((dt.year - 2000) * 13 + dt.month) * 32 + dt.day
TimeKey(dt) == (dt.hour * 60 + dt.minute) * 60 + dt.second

\* a variant of Value::new that takes every text str::parse reads as an f64 for a
\* Float, whether or not it holds a '.'
ValueNewFloatByParse(t) ==
    IF t = <<>> THEN VEmpty
    ELSE
    LET dt_char_count    == CountOrNone(t, DtSeparators, DtPlainChars)
        dt               == DtparseParse(t)
        f                == ParseF64(t)
    IN  IF dt_char_count > 0 /\ dt.ok
        THEN (IF dt.year = 0 THEN VTime(TimeKey(dt))
              ELSE IF dt.hour = 0 THEN VDate(DateKey(dt))
              ELSE VDateTime(DateKey(dt) * 86400 + TimeKey(dt)))
        ELSE IF f.ok THEN f.v
        ELSE VString(t)

\* Value::new: the inference order of the code
ValueNew(t) ==
    IF t = <<>> THEN VEmpty
    ELSE
    LET dt_char_count    == CountOrNone(t, DtSeparators, DtPlainChars)
        dt               == DtparseParse(t)
        float_char_count == CountOrNone(t, {"."}, Digits \cup {"-"})
        f                == ParseF64(t)
        i                == ParseI64(t)
    IN  IF dt_char_count > 0 /\ dt.ok
        THEN (IF dt.year = 0 THEN VTime(TimeKey(dt))
              ELSE IF dt.hour = 0 THEN VDate(DateKey(dt))
              ELSE VDateTime(DateKey(dt) * 86400 + TimeKey(dt)))
        ELSE IF float_char_count = 1 /\ f.ok THEN f.v
        ELSE IF (\A k \in 1..Len(t) : t[k] \in Digits \cup {"-"}) /\ i.ok THEN VInteger(i.v)
        ELSE VString(t)

\* the ValueTypes a schema of the model names.  DateTime and the three format
\* types hand the text to dtparse and chrono and unwrap what comes back; they are
\* left to those parsers.
ValueTypes == {"String", "Number", "Integer", "Float", "Empty"}

\* Value::with_type: the text is parsed as the type says and the result of
\* str::parse is unwrapped, so a text the type cannot take unwinds the caller
ValueWithType(t, value_type) ==
    LET f     == ParseF64(t)
        i     == ParseI64(t)
        panic == [status |-> "Panic", value |-> VEmpty]
    IN  CASE value_type = "String"  -> [status |-> "Ok", value |-> VString(t)]
          [] value_type = "Number"  ->
                IF f.ok THEN [status |-> "Ok", value |-> f.v]
                ELSE IF i.ok THEN [status |-> "Ok", value |-> VInteger(i.v)]
                ELSE panic
          [] value_type = "Integer" ->
                IF i.ok THEN [status |-> "Ok", value |-> VInteger(i.v)] ELSE panic
          [] value_type = "Float"   ->
                IF f.ok THEN [status |-> "Ok", value |-> f.v] ELSE panic
          [] value_type = "Empty"   -> [status |-> "Ok", value |-> VEmpty]

None == [some |-> FALSE, n |-> 0, e |-> 0]
Some(n, e) == [some |-> TRUE, n |-> n, e |-> e]

\* f as i64 of a Float n / 10^e: the fraction is cut off, towards zero
FloatAsI64(n, e) ==
    IF n >= 0 THEN n \div Pow10(e) ELSE 0 - ((0 - n) \div Pow10(e))

\* Value::try_as_integer
TryAsInteger(v) ==
    CASE v.tag = "Integer" -> Some(v.n, 0)
      [] v.tag = "Float"   -> Some(FloatAsI64(v.n, v.e), 0)
      [] OTHER             -> None

\* Value::try_as_float: the f64 is held as n / 10^e
TryAsFloat(v) ==
    CASE v.tag = "Integer" -> Some(v.n, 0)
      [] v.tag = "Float"   -> Some(v.n, v.e)
      [] OTHER             -> None

\* Value::try_as_date_time, try_as_date and try_as_time
TryAsDateTime(v) == IF v.tag = "DateTime" THEN Some(v.n, 0) ELSE None
TryAsDate(v)     == IF v.tag = "Date" THEN Some(v.n, 0) ELSE None
TryAsTime(v)     == IF v.tag = "Time" THEN Some(v.n, 0) ELSE None

\* the accessor try_as_<x>, x being the variant it is named after
Accessors == {"Integer", "Float", "DateTime", "Date", "Time"}
TryAs(x, v) ==
    CASE x = "Integer"  -> TryAsInteger(v)
      [] x = "Float"    -> TryAsFloat(v)
      [] x = "DateTime" -> TryAsDateTime(v)
      [] x = "Date"     -> TryAsDate(v)
      [] x = "Time"     -> TryAsTime(v)

DigitChar(k) ==
    CASE k = 0 -> "0" [] k = 1 -> "1" [] k = 2 -> "2" [] k = 3 -> "3" [] k = 4 -> "4"
      [] k = 5 -> "5" [] k = 6 -> "6" [] k = 7 -> "7" [] k = 8 -> "8" [] k = 9 -> "9"

RECURSIVE NatText(_)
\* the decimal digits of a natural number, without leading zeros
NatText(k) == IF k < 10 THEN <<DigitChar(k)>> ELSE Append(NatText(k \div 10), DigitChar(k % 10))

\* the last width decimal digits of k, zeros in front
RECURSIVE PadText(_, _)
PadText(k, width) ==
    IF width = 0 THEN <<>> ELSE Append(PadText(k \div 10, width - 1), DigitChar(k % 10))

\* "{}" of an i64
IntegerText(i) == IF i < 0 THEN <<"-">> \o NatText(0 - i) ELSE NatText(i)

\* "{}" of an f64 n / 10^e in lowest decimal form: the shortest decimal that reads
\* back as the same f64, which has no fraction part when the value is whole
FloatText(n, e) ==
    LET mag == IF n < 0 THEN 0 - n ELSE n
        txt == IF e = 0 THEN NatText(mag)
               ELSE NatText(mag \div Pow10(e)) \o <<".">> \o PadText(mag % Pow10(e), e)
    IN  IF n < 0 THEN <<"-">> \o txt ELSE txt

\* Display for Value, on the variants a text without date separators can become
Display(v) ==
    CASE v.tag = "String"  -> v.s
      [] v.tag = "Integer" -> IntegerText(v.n)
      [] v.tag = "Float"   -> FloatText(v.n, v.e)
      [] v.tag = "Empty"   -> <<>>

\* no call on Value has been made, or its result was dropped
NoVal == [op |-> "none"]

\* Value::new(raw)
ValNew ==
    /\ scene = "value"
    /\ val_ret = NoVal
    /\ val_ret' = [op |-> "new", status |-> "Ok", value |-> ValueNew(raw)]
    /\ UNCHANGED <<scene, raw, rowVars, largeVars>>

\* Value::with_type(raw, &value_type)
ValWithType(value_type) ==
    /\ scene = "value"
    /\ val_ret = NoVal
    /\ val_ret' = [op |-> "with_type", type |-> value_type,
               status |-> ValueWithType(raw, value_type).status,
               value |-> ValueWithType(raw, value_type).value]
    /\ UNCHANGED <<scene, raw, rowVars, largeVars>>

\* the Value a call returned
HasValue == val_ret.op \in {"new", "with_type"} /\ val_ret.status = "Ok"

\* v.try_as_<x>() on the Value the last call returned
ValTryAs(x) ==
    /\ scene = "value"
    /\ HasValue
    /\ val_ret' = [op |-> "try_as", want |-> x, self |-> val_ret.value,
               result |-> TryAs(x, val_ret.value)]
    /\ UNCHANGED <<scene, raw, rowVars, largeVars>>

\* v.to_string() on the Value Value::new returned
ValToString ==
    /\ scene = "value"
    /\ val_ret.op = "new"
    /\ val_ret' = [op |-> "to_string", self |-> val_ret.value, text |-> Display(val_ret.value)]
    /\ UNCHANGED <<scene, raw, rowVars, largeVars>>

\* Value::new on the text to_string returned
ValNewOfText ==
    /\ scene = "value"
    /\ val_ret.op = "to_string"
    /\ val_ret' = [op |-> "reparse", self |-> val_ret.self, text |-> val_ret.text,
               value |-> ValueNew(val_ret.text)]
    /\ UNCHANGED <<scene, raw, rowVars, largeVars>>

\* the caller drops what the last call returned
ValDrop ==
    /\ scene = "value"
    /\ val_ret # NoVal
    /\ val_ret' = NoVal
    /\ UNCHANGED <<scene, raw, rowVars, largeVars>>

-----------------------------------------------------------------------------
(* Delimited files.  A file is its header record (column names) and its data *)
(* records (field texts), as the external CSV tokenizer hands them over.  The *)
(* data records are rectangular and their fields are unquoted and non-empty,  *)
(* so a field's byte-offset pair selects exactly the field's text.            *)

ColumnNames == {"A", "B"}

Headers == {<<"A">>, <<"A", "B">>, <<"A", "A">>}

\* the texts a field of column c (1-based) may hold; "1" and "01" are different
\* texts of one Integer
FieldTextsAt(c) ==
    IF c = 1 THEN {<<"1">>, <<"0", "1">>, <<"x">>} ELSE {<<"1">>, <<"2">>}

Records(h) == {r \in [1..Len(h) -> FieldTextsAt(1) \cup FieldTextsAt(2)] :
                  \A c \in 1..Len(h) : r[c] \in FieldTextsAt(c)}

Files == UNION {{[header |-> h, records |-> rs] : rs \in SeqsUpTo(Records(h), MaxRows)} :
                    h \in Headers}

HasDuplicates(s) == Cardinality(Range(s)) # Len(s)

-----------------------------------------------------------------------------
(* LargeTable (src/src/lib.rs).  A row of the table is its ColumnOffsets,     *)
(* which the model holds as the number of the data record they point into.   *)

\* LargeTable::load: the first record becomes the columns, the others the rows
LargeTableLoad(f) ==
    [status |-> "Ok", columns |-> f.header, rows |-> [k \in 1..Len(f.records) |-> k]]

\* a variant of the lookup that falls back to the first column for an unknown name
ColumnPositionOrFirst(cols, column) ==
    IF Position(cols, column) = 0 THEN 0 ELSE Position(cols, column) - 1

\* LargeTable::column_position: Ok(pos) is the 0-based pos, Err is -1
ColumnPosition(cols, column) == Position(cols, column) - 1

\* &mmap[offsets[index].0 .. offsets[index].1] of a row
CellText(row, index) == file.records[row][index + 1]

\* Row::try_at (no schema): the field text run through Value::new
RowAt(row, index) == ValueNew(CellText(row, index))

Idle == [op |-> "idle"]

\* the LargeTable at hand is the one from_csv returned
Loaded == [op |-> "load", column |-> "", value |-> VEmpty]

NoRet == [op |-> "none", status |-> "none"]

\* the caller is between two calls on the LargeTable from_csv returned: none is
\* running and the result of the last one has been dropped
LtReady == scene = "mapped" /\ par = Idle /\ lt_ret = NoRet /\ lt_from = Loaded

\* LargeTable::get
LtGetResult(index) ==
    IF index >= Len(lt_rows)
    THEN [op |-> "get", index |-> index, status |-> "Err", row |-> 0]
    ELSE [op |-> "get", index |-> index, status |-> "Ok", row |-> lt_rows[index + 1]]

LtGet(index) ==
    /\ LtReady
    /\ lt_ret' = LtGetResult(index)
    /\ UNCHANGED <<scene, valueVars, lt_columns, lt_rows, lt_from, par, file, rowVars>>

\* HashMap::entry(key).or_insert(Vec::new()).push(x)
MapPush(map, key, x) ==
    [k \in (DOMAIN map) \cup {key} |->
        IF k = key THEN (IF key \in DOMAIN map THEN Append(map[key], x) ELSE <<x>>)
        ELSE map[k]]

\* LargeTable::group_by up to the parallel loop: the column is looked up, then
\* rows.par_iter().enumerate().for_each starts with every row still to be visited
LtGroupByStart(column) ==
    /\ LtReady
    /\ LET index == ColumnPosition(lt_columns, column)
       IN  IF index < 0
           THEN /\ lt_ret' = [op |-> "group_by", column |-> column, status |-> "Err"]
                /\ par' = par
           ELSE /\ par' = [op |-> "group_by", column |-> column, index |-> index,
                           pending |-> 1..Len(lt_rows), map |-> <<>>]
                /\ lt_ret' = NoRet
    /\ UNCHANGED <<scene, valueVars, lt_columns, lt_rows, lt_from, file, rowVars>>

\* one iteration of the for_each closure, on whichever row a worker reaches next:
\* it takes the mutex and pushes the row under the row's raw field text
LtGroupByPush(i) ==
    /\ par.op = "group_by"
    /\ i \in par.pending
    /\ par' = [par EXCEPT !.pending = @ \ {i},
                          !.map = MapPush(@, CellText(lt_rows[i], par.index), lt_rows[i])]
    /\ UNCHANGED <<scene, valueVars, lt_columns, lt_rows, lt_from, lt_ret, file, rowVars>>

\* the keys of the result: each raw key converted by Value::new
GroupKeys(map) == {ValueNew(t) : t \in DOMAIN map}

\* the maps collect::<HashMap<Value, _>>() can build from the converted entries:
\* of the raw keys that convert to one Value, the entry inserted last stays
CollectedGroups(map) ==
    {[k \in GroupKeys(map) |-> map[pick[k]]] :
        pick \in {p \in [GroupKeys(map) -> DOMAIN map] :
                     \A k \in GroupKeys(map) : ValueNew(p[k]) = k}}

\* LargeTable::group_by after the loop: the raw keys become Values and the
\* (Value, LargeTable) pairs are collected into the returned HashMap
LtGroupByCollect ==
    /\ par.op = "group_by"
    /\ par.pending = {}
    /\ \E groups \in CollectedGroups(par.map) :
          lt_ret' = [op |-> "group_by", column |-> par.column, status |-> "Ok",
                     groups |-> groups]
    /\ par' = Idle
    /\ UNCHANGED <<scene, valueVars, lt_columns, lt_rows, lt_from, file, rowVars>>

\* a variant of unique that returns the raw field texts as Strings
LtUniqueResultRaw(column) ==
    LET index == ColumnPosition(lt_columns, column)
        vals  == {CellText(lt_rows[i], index) : i \in 1..Len(lt_rows)}
    IN  IF index < 0
        THEN [op |-> "unique", column |-> column, status |-> "Err", values |-> {}]
        ELSE [op |-> "unique", column |-> column, status |-> "Ok",
              values |-> {VString(v) : v \in vals}]

\* LargeTable::unique
LtUniqueResult(column) ==
    LET index == ColumnPosition(lt_columns, column)
        vals  == {CellText(lt_rows[i], index) : i \in 1..Len(lt_rows)}
    IN  IF index < 0
        THEN [op |-> "unique", column |-> column, status |-> "Err", values |-> {}]
        ELSE [op |-> "unique", column |-> column, status |-> "Ok",
              values |-> {ValueNew(v) : v \in vals}]

LtUnique(column) ==
    /\ LtReady
    /\ lt_ret' = LtUniqueResult(column)
    /\ UNCHANGED <<scene, valueVars, lt_columns, lt_rows, lt_from, par, file, rowVars>>

\* the threads of the pool that pull from the bridged iterator, in the order in
\* which collect() joins what each of them gathered
WorkerOrder == <<"w1", "w2">>
WorkerIds == Range(WorkerOrder)

\* LargeTable::filter up to the parallel scan of filter_by
LtFilterStart(column, value) ==
    /\ LtReady
    /\ LET pos == ColumnPosition(lt_columns, column)
       IN  IF pos < 0
           THEN /\ lt_ret' = [op |-> "filter", column |-> column, value |-> value,
                              status |-> "Err", rows |-> <<>>]
                /\ par' = par
           ELSE /\ par' = [op |-> "filter", column |-> column, value |-> value,
                           pos |-> pos, next |-> 1,
                           local |-> [w \in WorkerIds |-> <<>>]]
                /\ lt_ret' = NoRet
    /\ UNCHANGED <<scene, valueVars, lt_columns, lt_rows, lt_from, file, rowVars>>

\* par_bridge: worker w takes the next (index, row) of the shared iterator and
\* runs the filter_map closure on it, keeping self.rows[index] when the predicate
\* row.at(pos) == value holds
LtFilterTake(w) ==
    /\ par.op = "filter"
    /\ par.next <= Len(lt_rows)
    /\ LET row  == lt_rows[par.next]
           keep == RowAt(row, par.pos) = par.value
       IN  par' = [par EXCEPT !.next = @ + 1,
                              !.local[w] = IF keep THEN Append(@, row) ELSE @]
    /\ UNCHANGED <<scene, valueVars, lt_columns, lt_rows, lt_from, lt_ret, file, rowVars>>

RECURSIVE ConcatLocals(_, _)
ConcatLocals(local, order) ==
    IF order = <<>> THEN <<>> ELSE local[Head(order)] \o ConcatLocals(local, Tail(order))

\* collect::<Vec<_>>(): what the workers gathered, joined worker by worker
LtFilterCollect ==
    /\ par.op = "filter"
    /\ par.next > Len(lt_rows)
    /\ lt_ret' = [op |-> "filter", column |-> par.column, value |-> par.value,
                  status |-> "Ok", rows |-> ConcatLocals(par.local, WorkerOrder)]
    /\ par' = Idle
    /\ UNCHANGED <<scene, valueVars, lt_columns, lt_rows, lt_from, file, rowVars>>

\* T.filter(c, v).filter(c, v): the caller calls the same filter on the LargeTable
\* the first call returned, which takes the place of T up to the parallel scan
LtFilterAgain ==
    /\ scene = "mapped"
    /\ par = Idle
    /\ lt_from = Loaded
    /\ lt_ret.op = "filter" /\ lt_ret.status = "Ok"
    /\ lt_rows' = lt_ret.rows
    /\ lt_from' = [op |-> "filter", column |-> lt_ret.column, value |-> lt_ret.value]
    /\ par' = [op |-> "filter", column |-> lt_ret.column, value |-> lt_ret.value,
               pos |-> ColumnPosition(lt_columns, lt_ret.column), next |-> 1,
               local |-> [w \in WorkerIds |-> <<>>]]
    /\ lt_ret' = NoRet
    /\ UNCHANGED <<scene, valueVars, lt_columns, file, rowVars>>

\* the caller drops the filtered table and is back at the table from_csv returned
LtBack ==
    /\ scene = "mapped"
    /\ par = Idle
    /\ lt_from # Loaded
    /\ lt_ret = NoRet
    /\ lt_rows' = LargeTableLoad(file).rows
    /\ lt_from' = Loaded
    /\ UNCHANGED <<scene, valueVars, lt_columns, lt_ret, par, file, rowVars>>

\* a variant of the comparator in which only the first column decides
RowCompareFirstColumn(a, b, indices) ==
    IF indices = <<>> THEN "Equal"
    ELSE ValueCmp(RowAt(a, Head(indices)), RowAt(b, Head(indices)))

RECURSIVE RowCompare(_, _, _)
\* the comparator LargeTable::sort builds: the first column that differs decides
RowCompare(a, b, indices) ==
    IF indices = <<>> THEN "Equal"
    ELSE LET r == ValueCmp(RowAt(a, Head(indices)), RowAt(b, Head(indices)))
         IN  IF r # "Equal" THEN r ELSE RowCompare(a, b, Tail(indices))

RECURSIVE InsertTail(_, _, _)
\* the tail x moved left past every element it is Less than
InsertTail(v, x, indices) ==
    IF v = <<>> THEN <<x>>
    ELSE IF RowCompare(x, v[Len(v)], indices) = "Less"
         THEN Append(InsertTail(SubSeq(v, 1, Len(v) - 1), x, indices), v[Len(v)])
         ELSE Append(v, x)

RECURSIVE SortUnstableBy(_, _)
\* slice::sort_unstable_by on a short slice: an insertion sort
SortUnstableBy(v, indices) ==
    IF v = <<>> THEN <<>>
    ELSE InsertTail(SortUnstableBy(SubSeq(v, 1, Len(v) - 1), indices), v[Len(v)], indices)

\* LargeTable::sort_by with the comparator of LargeTable::sort
LtSortBy(indices) == SortUnstableBy(lt_rows, indices)

\* LargeTable::sort
LtSortResult(cols) ==
    LET indices == [k \in 1..Len(cols) |-> ColumnPosition(lt_columns, cols[k])]
    IN  IF cols = <<>> \/ \E k \in 1..Len(cols) : indices[k] < 0
        THEN [op |-> "sort", cols |-> cols, status |-> "Err", rows |-> <<>>]
        ELSE [op |-> "sort", cols |-> cols, status |-> "Ok", rows |-> LtSortBy(indices)]

LtSort(cols) ==
    /\ LtReady
    /\ lt_ret' = LtSortResult(cols)
    /\ UNCHANGED <<scene, valueVars, lt_columns, lt_rows, lt_from, par, file, rowVars>>

\* Row::try_get and Row::get of the mapped table's row view
RowTryGet(row, column) ==
    LET pos == Position(lt_columns, column)
    IN  IF pos = 0 THEN [status |-> "Err", value |-> VEmpty]
        ELSE [status |-> "Ok", value |-> RowAt(row, pos - 1)]

\* Row::get: try_get(column).unwrap()
RowGet(row, column) ==
    LET r == RowTryGet(row, column)
    IN  IF r.status = "Err" THEN [status |-> "Panic", value |-> VEmpty] ELSE r

\* a cell read by name through the row view LargeTable::get(index) returned
LtCell(index, column) ==
    /\ LtReady
    /\ index < Len(lt_rows)
    /\ lt_ret' = [op |-> "cell", index |-> index, column |-> column,
                  try_get |-> RowTryGet(lt_rows[index + 1], column),
                  get |-> RowGet(lt_rows[index + 1], column)]
    /\ UNCHANGED <<scene, valueVars, lt_columns, lt_rows, lt_from, par, file, rowVars>>

\* the caller drops what the last call returned
LtDrop ==
    /\ par = Idle
    /\ lt_ret # NoRet
    /\ lt_ret' = NoRet
    /\ UNCHANGED <<scene, valueVars, lt_columns, lt_rows, lt_from, par, file, rowVars>>

\* the inputs the calls are tried with
CallColumns == {"A", "B", "Z"}
SortColumns == {<<>>, <<"A">>, <<"B">>, <<"A", "B">>, <<"B", "A">>, <<"A", "Z">>}
FilterValues == {VInteger(1), VString(<<"x">>)}

-----------------------------------------------------------------------------
(* The loaders of the three table types, each on the file of the scene. *)

\* RowTable::from_csv: the header is checked for duplicates, then every field is
\* run through Value::new
RowTableFromCsv(f) ==
    IF HasDuplicates(f.header)
    THEN [status |-> "Err", error |-> "DuplicateColumn", columns |-> <<>>, rows |-> <<>>]
    ELSE [status |-> "Ok", error |-> "", columns |-> f.header,
          rows |-> [k \in 1..Len(f.records) |->
                       [c \in 1..Len(f.records[k]) |-> ValueNew(f.records[k][c])]]]

\* the offsets MMapTable::map_file gathers: 0, then the end of every record read,
\* the last of them popped; an offset is held as the number of the record that
\* starts there, the header being record 0
MapFileRows(f) == [k \in 1..(Len(f.records) + 1) |-> k - 1]

\* MMapTable::map_file: the header is cut out at rows[1] and checked for duplicates
MMapTableMapFile(f) ==
    IF Len(MapFileRows(f)) < 2
    THEN [status |-> "Panic", error |-> "IndexOutOfBounds", columns |-> <<>>, rows |-> <<>>]
    ELSE IF HasDuplicates(f.header)
    THEN [status |-> "Err", error |-> "DuplicateColumn", columns |-> <<>>, rows |-> <<>>]
    ELSE [status |-> "Ok", error |-> "", columns |-> f.header, rows |-> MapFileRows(f)]

LoaderResult(loader) ==
    CASE loader = "RowTable::from_csv"  -> RowTableFromCsv(file)
      [] loader = "MMapTable::map_file" -> MMapTableMapFile(file)
      [] loader = "LargeTable::load"    ->
            [status |-> "Ok", error |-> "", columns |-> LargeTableLoad(file).columns,
             rows |-> LargeTableLoad(file).rows]

Loaders == {"RowTable::from_csv", "MMapTable::map_file", "LargeTable::load"}

\* a loader is called on the file
Load(loader) ==
    /\ LtReady
    /\ lt_ret' = [op |-> "load", loader |-> loader, status |-> LoaderResult(loader).status,
                  table |-> LoaderResult(loader)]
    /\ UNCHANGED <<scene, valueVars, lt_columns, lt_rows, lt_from, par, file, rowVars>>

\* RowTable::from_csv_with_schema: the header is checked for duplicates, then the
\* schema for its length; then field i of every record is run through
\* Value::with_type with schema[i], which unwinds the loader when it panics
RowTableFromCsvWithSchema(f, schema) ==
    LET cell(k, c) == ValueWithType(f.records[k][c], schema[c])
    IN  IF HasDuplicates(f.header)
        THEN [status |-> "Err", error |-> "DuplicateColumn", columns |-> <<>>, rows |-> <<>>]
        ELSE IF Len(f.header) # Len(schema)
        THEN [status |-> "Err", error |-> "SchemaLength", columns |-> <<>>, rows |-> <<>>]
        ELSE IF \E k \in 1..Len(f.records) : \E c \in 1..Len(f.records[k]) :
                   cell(k, c).status = "Panic"
        THEN [status |-> "Panic", error |-> "Unwrap", columns |-> <<>>, rows |-> <<>>]
        ELSE [status |-> "Ok", error |-> "", columns |-> f.header,
              rows |-> [k \in 1..Len(f.records) |->
                           [c \in 1..Len(f.records[k]) |-> cell(k, c).value]]]

\* MMapTable::from_csv_with_schema: map_file(file)?, then the schema is stored
MMapTableFromCsvWithSchema(f, schema) == MMapTableMapFile(f)

\* LargeTable::from_csv_with_schema: LargeTable::load(file, Some(schema)), which
\* stores the schema beside the columns
LargeTableFromCsvWithSchema(f, schema) ==
    [status |-> "Ok", error |-> "", columns |-> LargeTableLoad(f).columns,
     rows |-> LargeTableLoad(f).rows]

SchemaLoaderResult(loader, schema) ==
    CASE loader = "RowTable::from_csv_with_schema"   -> RowTableFromCsvWithSchema(file, schema)
      [] loader = "MMapTable::from_csv_with_schema"  -> MMapTableFromCsvWithSchema(file, schema)
      [] loader = "LargeTable::from_csv_with_schema" -> LargeTableFromCsvWithSchema(file, schema)

SchemaLoaders == {"RowTable::from_csv_with_schema", "MMapTable::from_csv_with_schema",
                  "LargeTable::from_csv_with_schema"}

\* a schema-taking loader is called on the file
LoadWithSchema(loader, schema) ==
    /\ LtReady
    /\ lt_ret' = [op |-> "load_with_schema", loader |-> loader, schema |-> schema,
                  status |-> SchemaLoaderResult(loader, schema).status,
                  table |-> SchemaLoaderResult(loader, schema)]
    /\ UNCHANGED <<scene, valueVars, lt_columns, lt_rows, lt_from, par, file, rowVars>>

\* the last call returned an MMapTable, which the caller holds
HoldsMMapTable ==
    /\ scene = "mapped"
    /\ par = Idle
    /\ lt_ret.op \in {"load", "load_with_schema"}
    /\ lt_ret.loader \in {"MMapTable::map_file", "MMapTable::from_csv_with_schema"}
    /\ lt_ret.status = "Ok"

\* unimplemented!(..): the call panics before it touches the table
Unimplemented(table) == [status |-> "Panic", table |-> table]

\* MMapTable::append_row
MMapAppendRow(row) ==
    /\ HoldsMMapTable
    /\ lt_ret' = [op |-> "append_row", target |-> "MMapTable", row |-> row,
                  status |-> Unimplemented(lt_ret.table).status,
                  before |-> lt_ret.table,
                  table |-> Unimplemented(lt_ret.table).table]
    /\ UNCHANGED <<scene, valueVars, lt_columns, lt_rows, lt_from, par, file, rowVars>>

\* MMapTable::add_column_with
MMapAddColumnWith(column_name) ==
    /\ HoldsMMapTable
    /\ lt_ret' = [op |-> "add_column_with", target |-> "MMapTable", name |-> column_name,
                  status |-> Unimplemented(lt_ret.table).status,
                  before |-> lt_ret.table,
                  table |-> Unimplemented(lt_ret.table).table]
    /\ UNCHANGED <<scene, valueVars, lt_columns, lt_rows, lt_from, par, file, rowVars>>

-----------------------------------------------------------------------------
(* RowTable and RowTableSlice (src/src/row_table.rs).  Row indices are        *)
(* 0-based, as in the code; rows[i + 1] is row i.                             *)

\* the caller holds no second slice of the table
NoSibling == [live |-> FALSE, rows |-> <<>>]

\* the RowTableSlice the caller holds: its row-index list, and a second slice of
\* the same table held beside it
NoSlice == [live |-> FALSE, rows |-> <<>>, sibling |-> NoSibling]
LiveSlice(rs) == [live |-> TRUE, rows |-> rs, sibling |-> NoSibling]

\* the table's Arc has another owner (a slice the caller still holds), so
\* Arc::get_mut returns None
Shared == slice.live

\* the caller is between two calls on the RowTable and holds no result
RtReady == scene = "owned" /\ ret = NoRet

\* TableOperations::len of the table and of a slice
TableLen == Len(rows)
SliceLen == Len(slice.rows)

\* TableOperations::column_position of a RowTable: 0-based, -1 for Err
RtColumnPosition(column) == ColumnPosition(columns, column)

\* Row::get of an OwnedRow: the position of the name in the row's own columns,
\* then Row::at
OwnedRowGet(row, column) ==
    LET pos == Position(row.columns, column)
    IN  IF pos = 0 \/ pos > Len(row.row)
        THEN [status |-> "Err", value |-> VEmpty]
        ELSE [status |-> "Ok", value |-> row.row[pos]]

\* Row::get of the RowSlice of parent row r: the name is looked up in the column
\* map, then the cell is cloned under the table's lock
RowSliceGet(r, column) ==
    LET pos == Position(columns, column)
    IN  IF pos = 0
        THEN [status |-> "Err", value |-> VEmpty]
        ELSE [status |-> "Ok", value |-> rows[r + 1][pos]]

\* a variant of append_row that stores the row's own cells, whatever the columns
\* of the row are
AppendRowAsGiven(row) ==
    IF Shared
    THEN [status |-> "Panic", rows |-> rows]
    ELSE [status |-> "Ok", rows |-> Append(rows, row.row)]

\* a variant of append_row that pushes the row whether or not the table has
\* another owner
AppendRowUnguarded(row) ==
    LET gets == [k \in 1..Len(columns) |-> OwnedRowGet(row, columns[k])]
    IN  IF \E k \in 1..Len(columns) : gets[k].status = "Err"
        THEN [status |-> "Err", rows |-> rows]
        ELSE [status |-> "Ok",
              rows |-> Append(rows, [k \in 1..Len(columns) |-> gets[k].value])]

\* RowTable::append_row: one cell per column of the table, fetched from the row by
\* name; the first column the row lacks ends the call with its error; then the
\* row is pushed through Arc::get_mut(..).unwrap()
AppendRowOutcome(row) ==
    LET gets == [k \in 1..Len(columns) |-> OwnedRowGet(row, columns[k])]
    IN  IF \E k \in 1..Len(columns) : gets[k].status = "Err"
        THEN [status |-> "Err", rows |-> rows]
        ELSE IF Shared
        THEN [status |-> "Panic", rows |-> rows]
        ELSE [status |-> "Ok",
              rows |-> Append(rows, [k \in 1..Len(columns) |-> gets[k].value])]

AppendRow(row) ==
    /\ RtReady
    /\ Len(rows) < MaxRows
    /\ rows' = AppendRowOutcome(row).rows
    /\ ret' = [op |-> "append_row", status |-> AppendRowOutcome(row).status, row |-> row]
    /\ UNCHANGED <<scene, valueVars, columns, slice, largeVars>>

\* a variant of add_column_with that does not look the name up first
AddColumnWithUnchecked(name, g) ==
    IF Shared
    THEN [status |-> "Panic", columns |-> columns, rows |-> rows, calls |-> 0]
    ELSE [status |-> "Ok", columns |-> Append(columns, name),
          rows |-> [k \in 1..Len(rows) |-> Append(rows[k], g[k])],
          calls |-> Len(rows)]

\* a variant of add_column_with that calls the generator once and gives every row
\* a copy of what it returned
AddColumnWithOneCall(name, g) ==
    IF RtColumnPosition(name) >= 0
    THEN [status |-> "Err", columns |-> columns, rows |-> rows, calls |-> 0]
    ELSE IF Shared
    THEN [status |-> "Panic", columns |-> columns, rows |-> rows, calls |-> 0]
    ELSE [status |-> "Ok", columns |-> Append(columns, name),
          rows |-> [k \in 1..Len(rows) |-> Append(rows[k], g[1])],
          calls |-> IF rows = <<>> THEN 0 ELSE 1]

\* RowTable::add_column_with: g[k] is what the k-th call of the generator returns.
\* An existing name ends the call with an error; otherwise the name is pushed and
\* every row gets one generated cell, both through Arc::get_mut(..).unwrap()
AddColumnWithOutcome(name, g) ==
    IF RtColumnPosition(name) >= 0
    THEN [status |-> "Err", columns |-> columns, rows |-> rows, calls |-> 0]
    ELSE IF Shared
    THEN [status |-> "Panic", columns |-> columns, rows |-> rows, calls |-> 0]
    ELSE [status |-> "Ok", columns |-> Append(columns, name),
          rows |-> [k \in 1..Len(rows) |-> Append(rows[k], g[k])],
          calls |-> Len(rows)]

AddColumnWith(name, g) ==
    /\ RtReady
    /\ columns' = AddColumnWithOutcome(name, g).columns
    /\ rows' = AddColumnWithOutcome(name, g).rows
    /\ ret' = [op |-> "add_column_with", name |-> name,
               status |-> AddColumnWithOutcome(name, g).status,
               calls |-> AddColumnWithOutcome(name, g).calls,
               gen |-> SubSeq(g, 1, AddColumnWithOutcome(name, g).calls)]
    /\ UNCHANGED <<scene, valueVars, slice, largeVars>>

\* RowTable::get: a view of row index
RtGetResult(index) ==
    IF index >= TableLen
    THEN [op |-> "get", target |-> "table", index |-> index, status |-> "Err", row |-> 0]
    ELSE [op |-> "get", target |-> "table", index |-> index, status |-> "Ok", row |-> index]

RtGet(index) ==
    /\ RtReady
    /\ ret' = RtGetResult(index)
    /\ UNCHANGED <<scene, valueVars, columns, rows, slice, largeVars>>

\* a variant of the slice's get that reads index as a row of the parent
SliceGetUntranslated(index) ==
    IF index >= SliceLen
    THEN [op |-> "get", target |-> "slice", index |-> index, status |-> "Err", row |-> 0]
    ELSE [op |-> "get", target |-> "slice", index |-> index, status |-> "Ok",
          row |-> index]

\* RowTableSlice::get: a view of parent row rows[index]
SliceGetResult(index) ==
    IF index >= SliceLen
    THEN [op |-> "get", target |-> "slice", index |-> index, status |-> "Err", row |-> 0]
    ELSE [op |-> "get", target |-> "slice", index |-> index, status |-> "Ok",
          row |-> slice.rows[index + 1]]

SliceGet(index) ==
    /\ RtReady
    /\ slice.live
    /\ ret' = SliceGetResult(index)
    /\ UNCHANGED <<scene, valueVars, columns, rows, slice, largeVars>>

RECURSIVE GroupFold(_, _, _)
\* the loop of RowTable::group_by from row i on: row i goes under its cell at pos
GroupFold(i, map, pos) ==
    IF i >= Len(rows) THEN map
    ELSE GroupFold(i + 1, MapPush(map, rows[i + 1][pos + 1], i), pos)

\* RowTable::group_by
RtGroupByResult(column) ==
    LET pos == RtColumnPosition(column)
    IN  IF pos < 0
        THEN [op |-> "group_by", column |-> column, status |-> "Err", groups |-> <<>>]
        ELSE [op |-> "group_by", column |-> column, status |-> "Ok",
              groups |-> GroupFold(0, <<>>, pos)]

RtGroupBy(column) ==
    /\ RtReady
    /\ ret' = RtGroupByResult(column)
    /\ UNCHANGED <<scene, valueVars, columns, rows, slice, largeVars>>

\* a predicate of the caller, deterministic and free of side effects: every row,
\* or the rows whose cell at a column is a given value
PredHolds(p, r) ==
    IF p.kind = "all" THEN TRUE
    ELSE RowSliceGet(r, p.column) = [status |-> "Ok", value |-> p.value]

RECURSIVE FindLoop(_, _)
\* the loop of find_by over the row indices rs: those the predicate holds of are
\* pushed in the order they are met
FindLoop(rs, p) ==
    IF rs = <<>> THEN <<>>
    ELSE (IF PredHolds(p, Head(rs)) THEN <<Head(rs)>> ELSE <<>>) \o FindLoop(Tail(rs), p)

\* RowTable::find_by: iter().enumerate() visits the rows 0..len in order
RtFindByRows(p) == FindLoop(RangeVec(0, TableLen), p)

\* a variant of the slice's find_by that reads position k of the slice as row k of
\* the parent
SliceFindByPositions(rs, p) == FindLoop(RangeVec(0, Len(rs)), p)

\* RowTableSlice::find_by on a slice whose row-index list is rs
SliceFindByOn(rs, p) == FindLoop(rs, p)

RtFindBy(p) ==
    /\ RtReady
    /\ ret' = [op |-> "find_by", target |-> "table", pred |-> p, status |-> "Ok",
               rows |-> RtFindByRows(p)]
    /\ UNCHANGED <<scene, valueVars, columns, rows, slice, largeVars>>

\* RowTableSlice::find_by: the slice's own row list is visited
SliceFindByRows(p) == FindLoop(slice.rows, p)

SliceFindBy(p) ==
    /\ RtReady
    /\ slice.live
    /\ ret' = [op |-> "find_by", target |-> "slice", pred |-> p, status |-> "Ok",
               rows |-> SliceFindByRows(p)]
    /\ UNCHANGED <<scene, valueVars, columns, rows, slice, largeVars>>

\* T.find_by(p1).find_by(p): the caller calls find_by on the slice the first call
\* returned, without keeping that slice
RtFindByThen(p) ==
    /\ scene = "owned"
    /\ ret.op = "find_by" /\ ret.target = "table" /\ ret.status = "Ok"
    /\ ret' = [op |-> "find_by", target |-> "found", pred |-> p, status |-> "Ok",
               rows |-> SliceFindByOn(ret.rows, p),
               first_pred |-> ret.pred, first |-> ret.rows]
    /\ UNCHANGED <<scene, valueVars, columns, rows, slice, largeVars>>

\* what a thread gets when it locks a std Mutex it already holds: the call never
\* returns, or it panics
Relock == {"Deadlock", "Panic"}

\* RowTable::append_row given the row view of the table's own row index: the loop
\* over the columns holds the guard of self.0.lock() while the view's get locks
\* the table for the cell; with no column the loop is skipped and Arc::get_mut,
\* the view being an owner, returns None
AppendRowViewResults(index) ==
    IF columns # <<>>
    THEN {[op |-> "append_row", status |-> st, row |-> [view |-> index]] : st \in Relock}
    ELSE {[op |-> "append_row", status |-> "Panic", row |-> [view |-> index]]}

AppendRowView(index) ==
    /\ RtReady
    /\ index < TableLen
    /\ ret' \in AppendRowViewResults(index)
    /\ UNCHANGED <<scene, valueVars, columns, rows, slice, largeVars>>

\* RowTable::split_rows_at: mid >= len is refused; otherwise the result expression
\* locks the table for the first slice's column map and, that guard still alive,
\* locks it again
RtSplitRowsAtResults(mid) ==
    IF mid >= TableLen
    THEN {[op |-> "split_rows_at", target |-> "table", mid |-> mid, status |-> "Err",
           left |-> <<>>, right |-> <<>>]}
    ELSE {[op |-> "split_rows_at", target |-> "table", mid |-> mid, status |-> st,
           left |-> <<>>, right |-> <<>>] : st \in Relock}

RtSplitRowsAt(mid) ==
    /\ RtReady
    /\ ret' \in RtSplitRowsAtResults(mid)
    /\ UNCHANGED <<scene, valueVars, columns, rows, slice, largeVars>>

\* RowTableSlice::split_rows_at: mid >= len is refused; otherwise the two slices
\* hold (0..mid) and (mid..len)
SliceSplitRowsAtResult(mid) ==
    IF mid >= SliceLen
    THEN [op |-> "split_rows_at", target |-> "slice", mid |-> mid, status |-> "Err",
          left |-> <<>>, right |-> <<>>]
    ELSE [op |-> "split_rows_at", target |-> "slice", mid |-> mid, status |-> "Ok",
          left |-> RangeVec(0, mid), right |-> RangeVec(mid, SliceLen)]

SliceSplitRowsAt(mid) ==
    /\ RtReady
    /\ slice.live
    /\ ret' = SliceSplitRowsAtResult(mid)
    /\ UNCHANGED <<scene, valueVars, columns, rows, slice, largeVars>>

\* the name under which the caller passes a comparator that is no order at all:
\* it answers Less whatever the two rows are
AlwaysLess == "<"

\* the closure sort_unstable_by is given: RowSlice views of parent rows a and b
\* go to the caller's comparator, which here orders them by their cells at column
SliceCompare(a, b, column) ==
    IF column = AlwaysLess THEN "Less"
    ELSE ValueCmp(RowSliceGet(a, column).value, RowSliceGet(b, column).value)

\* a variant of the insertion that overwrites the element it should move right
SliceInsertTailLosing(v, x, column) ==
    IF v = <<>> THEN <<x>>
    ELSE IF SliceCompare(x, v[Len(v)], column) = "Less"
         THEN Append(SubSeq(v, 1, Len(v) - 1), x)
         ELSE Append(v, x)

RECURSIVE SliceInsertTail(_, _, _)
\* the tail x moved left past every element it is Less than
SliceInsertTail(v, x, column) ==
    IF v = <<>> THEN <<x>>
    ELSE IF SliceCompare(x, v[Len(v)], column) = "Less"
         THEN Append(SliceInsertTail(SubSeq(v, 1, Len(v) - 1), x, column), v[Len(v)])
         ELSE Append(v, x)

RECURSIVE SliceSortUnstableBy(_, _)
\* slice::sort_unstable_by on a short Vec of row indices: an insertion sort
SliceSortUnstableBy(v, column) ==
    IF v = <<>> THEN <<>>
    ELSE SliceInsertTail(SliceSortUnstableBy(SubSeq(v, 1, Len(v) - 1), column),
                         v[Len(v)], column)

\* a variant of the slice's sort_by that sorts the slice's own row list in place
\* and returns the slice itself
SliceSortByInPlace(column) ==
    /\ RtReady
    /\ slice.live
    /\ slice' = [slice EXCEPT !.rows = SliceSortUnstableBy(slice.rows, column)]
    /\ ret' = [op |-> "sort_by", column |-> column, status |-> "Ok",
               rows |-> SliceSortUnstableBy(slice.rows, column)]
    /\ UNCHANGED <<scene, valueVars, columns, rows, largeVars>>

\* RowTableSlice::sort_by: a copy of the slice's row list is sorted and returned
\* in a new slice of the same table
SliceSortBy(column) ==
    /\ RtReady
    /\ slice.live
    /\ ret' = [op |-> "sort_by", column |-> column, status |-> "Ok",
               rows |-> SliceSortUnstableBy(slice.rows, column)]
    /\ UNCHANGED <<scene, valueVars, columns, rows, slice, largeVars>>

\* a cell read by name through the row view of row index
RtCell(index, column) ==
    /\ RtReady
    /\ index < TableLen
    /\ ret' = [op |-> "cell", index |-> index, column |-> column,
               status |-> RowSliceGet(index, column).status,
               value |-> RowSliceGet(index, column).value]
    /\ UNCHANGED <<scene, valueVars, columns, rows, slice, largeVars>>

\* the slices a result holds
RetSlices ==
    CASE ret.op = "find_by" /\ ret.status = "Ok" -> {ret.rows}
      [] ret.op = "split_rows_at" /\ ret.status = "Ok" -> {ret.left, ret.right}
      [] ret.op = "group_by" /\ ret.status = "Ok" -> {ret.groups[k] : k \in DOMAIN ret.groups}
      [] OTHER -> {}

\* the caller keeps one slice of the result (and drops the slices held before)
RtKeep ==
    /\ scene = "owned"
    /\ \E rs \in RetSlices : slice' = LiveSlice(rs)
    /\ ret' = NoRet
    /\ UNCHANGED <<scene, valueVars, columns, rows, largeVars>>

\* the caller keeps two slices of the result (and drops the slices held before)
RtKeepPair ==
    /\ scene = "owned"
    /\ \E rs \in RetSlices : \E sb \in RetSlices \ {rs} :
          slice' = [LiveSlice(rs) EXCEPT !.sibling = [live |-> TRUE, rows |-> sb]]
    /\ ret' = NoRet
    /\ UNCHANGED <<scene, valueVars, columns, rows, largeVars>>

\* a call that returned or unwound: the caller drops the result
RtDrop ==
    /\ scene = "owned"
    /\ ret # NoRet
    /\ ret.status \in {"Ok", "Err", "Panic"}
    /\ ret' = NoRet
    /\ UNCHANGED <<scene, valueVars, columns, rows, slice, largeVars>>

\* the caller drops the slice it holds
RtDropSlice ==
    /\ RtReady
    /\ slice.live
    /\ slice' = NoSlice
    /\ UNCHANGED <<scene, valueVars, columns, rows, ret, largeVars>>

\* the inputs the calls are tried with
InitColumns == {<<"A">>, <<"A", "B">>, <<"A", "A">>}
AddNames == {"A", "C"}
GenValues == {VEmpty, VInteger(1)}
InputRows ==
    {[columns |-> <<"A">>, row |-> <<VInteger(1)>>],
     [columns |-> <<"A">>, row |-> <<VInteger(2)>>],
     [columns |-> <<"B">>, row |-> <<VInteger(1)>>],
     [columns |-> <<"A", "B">>, row |-> <<VInteger(1), VInteger(2)>>],
     [columns |-> <<"B", "A">>, row |-> <<VInteger(2), VInteger(1)>>],
     [columns |-> <<"A", "B", "C">>, row |-> <<VInteger(2), VInteger(2), VInteger(1)>>]}
Predicates ==
    {[kind |-> "all", column |-> "", value |-> VEmpty],
     [kind |-> "eq", column |-> "A", value |-> VInteger(1)],
     [kind |-> "eq", column |-> "B", value |-> VInteger(2)],
     [kind |-> "eq", column |-> "Z", value |-> VInteger(1)]}

\* LargeTable::load of the file of the scene
InitLarge ==
    /\ scene = "mapped"
    /\ file \in Files
    /\ lt_columns = LargeTableLoad(file).columns
    /\ lt_rows = LargeTableLoad(file).rows
    /\ lt_from = Loaded
    /\ lt_ret = NoRet
    /\ par = Idle
    /\ columns = <<>> /\ rows = <<>> /\ slice = NoSlice /\ ret = NoRet
    /\ raw = <<>> /\ val_ret = NoVal

NextLarge ==
    \/ \E index \in 0..MaxRows : LtGet(index)
    \/ \E column \in CallColumns : LtGroupByStart(column)
    \/ \E i \in 1..MaxRows : LtGroupByPush(i)
    \/ LtGroupByCollect
    \/ \E column \in CallColumns : LtUnique(column)
    \/ \E column \in CallColumns, value \in FilterValues : LtFilterStart(column, value)
    \/ \E w \in WorkerIds : LtFilterTake(w)
    \/ LtFilterCollect
    \/ \E cols \in SortColumns : LtSort(cols)
    \/ \E index \in 0..MaxRows, column \in CallColumns : LtCell(index, column)
    \/ LtDrop

\* RowTable::new
InitRow ==
    /\ scene = "owned"
    /\ columns \in InitColumns
    /\ rows = <<>>
    /\ slice = NoSlice
    /\ ret = NoRet
    /\ file = [header |-> <<>>, records |-> <<>>]
    /\ lt_columns = <<>> /\ lt_rows = <<>> /\ lt_from = Loaded /\ lt_ret = NoRet /\ par = Idle
    /\ raw = <<>> /\ val_ret = NoVal

NextRow ==
    \/ \E row \in InputRows : AppendRow(row)
    \/ \E name \in AddNames, g \in [1..MaxRows -> GenValues] : AddColumnWith(name, g)
    \/ \E index \in 0..MaxRows : RtGet(index)
    \/ \E index \in 0..MaxRows : SliceGet(index)
    \/ \E column \in CallColumns : RtGroupBy(column)
    \/ \E p \in Predicates : RtFindBy(p)
    \/ \E p \in Predicates : SliceFindBy(p)
    \/ \E mid \in 0..(MaxRows + 1) : RtSplitRowsAt(mid)
    \/ \E mid \in 0..(MaxRows + 1) : SliceSplitRowsAt(mid)
    \/ \E index \in 0..MaxRows, column \in CallColumns : RtCell(index, column)
    \/ RtKeep
    \/ RtDrop
    \/ RtDropSlice

-----------------------------------------------------------------------------
Init == InitLarge \/ InitRow

Next ==
    \/ NextLarge
    \/ \E loader \in Loaders : Load(loader)
    \/ NextRow

Spec == Init /\ [][Next]_vars

-----------------------------------------------------------------------------
(* Filtering sessions: a caller that filters a table and filters the result   *)
(* again, on a LargeTable and on a RowTable.                                  *)

\* the predicates of the session: those of Predicates, and one on the added column
FindPredicates == Predicates \cup {[kind |-> "eq", column |-> "C", value |-> VInteger(1)]}

NextFind ==
    \/ \E column \in CallColumns : \E value \in FilterValues : LtFilterStart(column, value)
    \/ \E w \in WorkerIds : LtFilterTake(w)
    \/ LtFilterCollect
    \/ LtFilterAgain
    \/ LtBack
    \/ LtDrop
    \/ \E row \in InputRows : AppendRow(row)
    \/ \E name \in AddNames : \E g \in [1..MaxRows -> GenValues] : AddColumnWith(name, g)
    \/ \E p \in FindPredicates : RtFindBy(p)
    \/ \E p \in FindPredicates : RtFindByThen(p)
    \/ RtDrop

SpecFind == Init /\ [][NextFind]_vars

-----------------------------------------------------------------------------
(* Sorting sessions: a caller that sorts a LargeTable, or that groups a        *)
(* RowTable, keeps two of the groups and sorts one of them.                    *)

\* the rows of the session: those of InputRows, and one that differs from
\* another in column B only
SortRows == InputRows \cup {[columns |-> <<"A", "B">>, row |-> <<VInteger(2), VInteger(1)>>]}

NextSort ==
    \/ \E cols \in SortColumns : LtSort(cols)
    \/ LtDrop
    \/ \E row \in SortRows : AppendRow(row)
    \/ \E column \in CallColumns : RtGroupBy(column)
    \/ RtKeepPair
    \/ \E column \in CallColumns \cup {AlwaysLess} : SliceSortBy(column)
    \/ RtDrop
    \/ RtDropSlice

SpecSort == Init /\ [][NextSort]_vars

-----------------------------------------------------------------------------
(* Value sessions: a text, and the calls on Value made with it.               *)

\* the characters of the texts: digits, the decimal point and a letter
TextChars == {"0", "1", ".", "x"}
Texts == SeqsUpTo(TextChars, MaxLen)

InitValue ==
    /\ scene = "value"
    /\ raw \in Texts
    /\ val_ret = NoVal
    /\ columns = <<>> /\ rows = <<>> /\ slice = NoSlice /\ ret = NoRet
    /\ file = [header |-> <<>>, records |-> <<>>]
    /\ lt_columns = <<>> /\ lt_rows = <<>> /\ lt_from = Loaded /\ lt_ret = NoRet /\ par = Idle

NextValue ==
    \/ ValNew
    \/ \E value_type \in ValueTypes : ValWithType(value_type)
    \/ \E x \in Accessors : ValTryAs(x)
    \/ ValToString
    \/ ValNewOfText
    \/ ValDrop

SpecValue == InitValue /\ [][NextValue]_vars

-----------------------------------------------------------------------------
(* Loading sessions: a file, the loaders of the three table types called on *)
(* it with and without a schema, and the mutations tried on an MMapTable.   *)

\* the schemas the loaders are given: up to two ValueTypes
Schemas == SeqsUpTo({"Integer", "String"}, 2)

NextLoad ==
    \/ \E loader \in Loaders : Load(loader)
    \/ \E loader \in SchemaLoaders : \E schema \in Schemas : LoadWithSchema(loader, schema)
    \/ \E row \in InputRows : MMapAppendRow(row)
    \/ \E name \in AddNames : MMapAddColumnWith(name)
    \/ LtDrop

SpecLoad == InitLarge /\ [][NextLoad]_vars

-----------------------------------------------------------------------------
(* Grouping sessions: a LargeTable whose columns are grouped and listed.     *)

NextGroup ==
    \/ \E column \in CallColumns : LtGroupByStart(column)
    \/ \E i \in 1..MaxRows : LtGroupByPush(i)
    \/ LtGroupByCollect
    \/ \E column \in CallColumns : LtUnique(column)
    \/ LtDrop

SpecGroup == InitLarge /\ [][NextGroup]_vars

-----------------------------------------------------------------------------
(* Mutating sessions: a RowTable that grows by rows and columns while the     *)
(* caller takes and drops slices of it.                                        *)

NextMutate ==
    \/ \E row \in InputRows : AppendRow(row)
    \/ \E name \in AddNames : \E g \in [1..MaxRows -> GenValues] : AddColumnWith(name, g)
    \/ \E p \in Predicates : RtFindBy(p)
    \/ RtKeep
    \/ RtDrop
    \/ RtDropSlice

SpecMutate == InitRow /\ [][NextMutate]_vars

-----------------------------------------------------------------------------
(* Inference sessions: a text that may hold a clock time, and Value::new.     *)

\* the characters of the texts: digits, the decimal point, the time separator and
\* a letter
InferChars == {"0", "1", ".", ":", "x"}
\* 2020-01-02 at 03:04, at 00:30 and at 00:00, as ISO date-times
IsoTexts ==
    {<<"2", "0", "2", "0", "-", "0", "1", "-", "0", "2", "T">> \o hm :
        hm \in {<<"0", "3", ":", "0", "4">>, <<"0", "0", ":", "3", "0">>,
                <<"0", "0", ":", "0", "0">>}}
InferTexts == SeqsUpTo(InferChars, MaxLen + 1) \cup IsoTexts

InitInfer ==
    /\ scene = "value"
    /\ raw \in InferTexts
    /\ val_ret = NoVal
    /\ columns = <<>> /\ rows = <<>> /\ slice = NoSlice /\ ret = NoRet
    /\ file = [header |-> <<>>, records |-> <<>>]
    /\ lt_columns = <<>> /\ lt_rows = <<>> /\ lt_from = Loaded /\ lt_ret = NoRet /\ par = Idle

NextInfer ==
    \/ ValNew
    \/ ValDrop

SpecInfer == InitInfer /\ [][NextInfer]_vars

-----------------------------------------------------------------------------
(* Locking sessions: the RowTable calls that take the table's mutex more than *)
(* once.                                                                       *)

NextLock ==
    \/ \E row \in InputRows : AppendRow(row)
    \/ \E index \in 0..MaxRows : AppendRowView(index)
    \/ \E mid \in 0..(MaxRows + 1) : RtSplitRowsAt(mid)
    \/ RtDrop

SpecLock == InitRow /\ [][NextLock]_vars

-----------------------------------------------------------------------------
(* Properties. *)

Occurrences(s, x) == Cardinality({j \in 1..Len(s) : s[j] = x})

\* the groups of a group_by result partition the row list rs: every row of rs is in
\* exactly one group, once
Partitions(groups, rs) ==
    /\ \A i \in 1..Len(rs) :
          \E k \in DOMAIN groups :
              /\ Occurrences(groups[k], rs[i]) = 1
              /\ \A j \in (DOMAIN groups) \ {k} : Occurrences(groups[j], rs[i]) = 0
    /\ \A k \in DOMAIN groups : Range(groups[k]) \subseteq Range(rs)

\* C1: the tables or slices group_by(C) returns partition the rows of the table
\* exactly, every row of a group holds the group's key at C, for the mapped
\* LargeTable (also when two field texts decode to one Value) and for the RowTable.
C1_GroupByPartitions ==
    /\ (lt_ret.op = "group_by" /\ lt_ret.status = "Ok") =>
          /\ Partitions(lt_ret.groups, lt_rows)
          /\ \A k \in DOMAIN lt_ret.groups : \A r \in Range(lt_ret.groups[k]) :
                RowAt(r, ColumnPosition(lt_columns, lt_ret.column)) = k
    /\ (ret.op = "group_by" /\ ret.status = "Ok") =>
          /\ Partitions(ret.groups, RangeVec(0, Len(rows)))
          /\ \A k \in DOMAIN ret.groups : \A r \in Range(ret.groups[k]) :
                RowSliceGet(r, ret.column).value = k

\* C2: find_by / filter_by returns exactly the rows the predicate holds of, in
\* their original relative order; for LargeTable::filter_by under every
\* interleaving of the workers.
C2_FilterKeepsOrder ==
    /\ (lt_ret.op = "filter" /\ lt_ret.status = "Ok") =>
          lt_ret.rows =
              SelectSeq(lt_rows,
                        LAMBDA r : RowAt(r, ColumnPosition(lt_columns, lt_ret.column))
                                       = lt_ret.value)
    /\ (ret.op = "find_by" /\ ret.target = "table") =>
          ret.rows = SelectSeq(RangeVec(0, Len(rows)), LAMBDA r : PredHolds(ret.pred, r))
    /\ (ret.op = "find_by" /\ ret.target = "slice") =>
          ret.rows = SelectSeq(slice.rows, LAMBDA r : PredHolds(ret.pred, r))

\* the Value of row r at column name c
KeyAt(r, c) == RowAt(r, Position(lt_columns, c) - 1)

\* (a[c1],...,a[cn]) <= (b[c1],...,b[cn]) lexicographically under the Value order
LexLeq(a, b, cols) ==
    \/ \A k \in 1..Len(cols) : KeyAt(a, cols[k]) = KeyAt(b, cols[k])
    \/ \E k \in 1..Len(cols) :
          /\ \A j \in 1..(k - 1) : KeyAt(a, cols[j]) = KeyAt(b, cols[j])
          /\ ValueCmp(KeyAt(a, cols[k]), KeyAt(b, cols[k])) = "Less"

\* C3: sort by a non-empty list of existing columns succeeds and returns the rows
\* so that every adjacent pair is in lexicographic order of the columns' Values,
\* a later column deciding only on a tie of the earlier ones.
C3_SortIsLexicographic ==
    (lt_ret.op = "sort" /\ lt_ret.cols # <<>>
        /\ Range(lt_ret.cols) \subseteq Range(lt_columns)) =>
        /\ lt_ret.status = "Ok"
        /\ Len(lt_ret.rows) = Len(lt_rows)
        /\ \A i \in 1..(Len(lt_ret.rows) - 1) :
              LexLeq(lt_ret.rows[i], lt_ret.rows[i + 1], lt_ret.cols)

\* a sort by two columns that had to move rows and met a tie on the first column
C3_Witness ==
    /\ lt_ret.op = "sort" /\ lt_ret.status = "Ok" /\ Len(lt_ret.cols) = 2
    /\ lt_ret.cols[1] # lt_ret.cols[2]
    /\ lt_ret.rows # lt_rows
    /\ \E i \in 1..(Len(lt_ret.rows) - 1) :
          /\ KeyAt(lt_ret.rows[i], lt_ret.cols[1]) = KeyAt(lt_ret.rows[i + 1], lt_ret.cols[1])
          /\ KeyAt(lt_ret.rows[i], lt_ret.cols[2]) # KeyAt(lt_ret.rows[i + 1], lt_ret.cols[2])

\* the row list a split was called on
SplitInput == IF ret.target = "table" THEN RangeVec(0, Len(rows)) ELSE slice.rows

\* C4: split_rows_at(mid) on a table or slice of length n succeeds for every
\* 0 <= mid <= n, its two slices together being the original row list in the
\* original order (so disjoint and covering); for mid > n it fails.
C4_SplitCoversForMidUpToLen ==
    ret.op = "split_rows_at" =>
        IF ret.mid <= Len(SplitInput)
        THEN /\ ret.status = "Ok"
             /\ ret.left \o ret.right = SplitInput
             /\ Len(ret.left) = ret.mid
        ELSE ret.status = "Err"

\* C5: a file whose header repeats a column name is refused by every loader with
\* a duplicate-column error.
C5_DuplicateHeaderRefused ==
    (lt_ret.op = "load" /\ HasDuplicates(file.header)) =>
        /\ lt_ret.status = "Err"
        /\ lt_ret.table.error = "DuplicateColumn"

\* C6: append_row returns an error and appends nothing whenever the row's width
\* differs from the table's, be the row narrower or wider.
C6_AppendRowRefusesOtherWidth ==
    [][(ret'.op = "append_row" /\ ret.op # "append_row"
           /\ Len(ret'.row.columns) # Len(columns)) =>
          (ret'.status = "Err" /\ rows' = rows)]_vars

\* C7: add_column_with on a name that is already a column returns an error, leaves
\* the column list and every row unchanged, and never invokes the generator.
C7_AddExistingColumnRefused ==
    [][(ret'.op = "add_column_with" /\ ret.op # "add_column_with"
           /\ ret'.name \in Range(columns)) =>
          (/\ ret'.status = "Err"
           /\ columns' = columns
           /\ rows' = rows
           /\ ret'.calls = 0)]_vars

\* add_column_with refused an existing name on a table that has rows and no
\* other owner
C7_Witness ==
    /\ ret.op = "add_column_with" /\ ret.status = "Err"
    /\ ret.name \in Range(columns)
    /\ Len(rows) >= 2
    /\ ~Shared

\* TableOperations::width
RtWidth == Len(columns)

C10_GetChecksIndex ==
    /\ lt_ret.op = "get" =>
          IF lt_ret.index >= Len(lt_rows) THEN lt_ret.status = "Err"
          ELSE lt_ret.status = "Ok" /\ lt_ret.row = lt_rows[lt_ret.index + 1]
    /\ (ret.op = "get" /\ ret.target = "table") =>
          IF ret.index >= Len(rows) THEN ret.status = "Err"
          ELSE ret.status = "Ok" /\ ret.row = ret.index
    /\ (ret.op = "get" /\ ret.target = "slice") =>
          IF ret.index >= Len(slice.rows) THEN ret.status = "Err"
          ELSE /\ ret.status = "Ok"
               /\ ret.row = slice.rows[ret.index + 1]
               /\ \A c \in Range(columns) :
                     RowSliceGet(ret.row, c).value
                         = rows[slice.rows[ret.index + 1] + 1][Position(columns, c)]

\* get on a slice returned a parent row whose number is not the index asked for
C10_Witness ==
    /\ ret.op = "get" /\ ret.target = "slice" /\ ret.status = "Ok"
    /\ ret.row # ret.index
    /\ Len(rows) >= 2

\* C11: filtering is idempotent: T.find_by(p).find_by(p) holds the same rows, in
\* the same order, as T.find_by(p); for LargeTable::filter the second call returns
\* the table it was called on, under every interleaving of the workers.
C11_FilterTwiceIsFilterOnce ==
    /\ (lt_ret.op = "filter" /\ lt_ret.status = "Ok"
           /\ lt_from = [op |-> "filter", column |-> lt_ret.column, value |-> lt_ret.value]) =>
          lt_ret.rows = lt_rows
    /\ (ret.op = "find_by" /\ ret.target = "found" /\ ret.pred = ret.first_pred) =>
          ret.rows = ret.first

\* C12: find_by on a slice evaluates the predicate on the parent rows the slice
\* refers to and returns parent row indices: T.find(c1, v1).find(c2, v2) holds
\* exactly the rows of T with v1 at c1 and v2 at c2, in the order of T.
C12_FindOnSliceMeetsBoth ==
    (ret.op = "find_by" /\ ret.target = "found") =>
        /\ ret.status = "Ok"
        /\ ret.rows = SelectSeq(RangeVec(0, Len(rows)),
                                LAMBDA r : PredHolds(ret.first_pred, r) /\ PredHolds(ret.pred, r))

\* the first find returned two rows that are not the first rows of the table, and
\* the find on them on another column returned exactly one
C12_Witness ==
    /\ ret.op = "find_by" /\ ret.target = "found"
    /\ ret.first_pred.kind = "eq" /\ ret.pred.kind = "eq"
    /\ ret.first_pred.column # ret.pred.column
    /\ Len(ret.first) = 2 /\ ret.first[1] # 0
    /\ Len(ret.rows) = 1

\* C13: split_rows_at(mid) on a slice partitions the slice's own row-index list:
\* the first result refers to parent rows rows[0..mid), the second to parent rows
\* rows[mid..len), whatever the row list of the slice is.
C13_SliceSplitKeepsParentRows ==
    (ret.op = "split_rows_at" /\ ret.target = "slice" /\ ret.status = "Ok") =>
        /\ ret.left = SubSeq(slice.rows, 1, ret.mid)
        /\ ret.right = SubSeq(slice.rows, ret.mid + 1, Len(slice.rows))

\* C20: within each group group_by returns, the rows are in their original
\* relative order; for LargeTable::group_by under every interleaving of the
\* workers that push into the shared map.
C20_GroupsKeepRowOrder ==
    /\ (lt_ret.op = "group_by" /\ lt_ret.status = "Ok") =>
          \A k \in DOMAIN lt_ret.groups :
              lt_ret.groups[k]
                  = SelectSeq(lt_rows, LAMBDA r : r \in Range(lt_ret.groups[k]))
    /\ (ret.op = "group_by" /\ ret.status = "Ok") =>
          \A k \in DOMAIN ret.groups :
              ret.groups[k]
                  = SelectSeq(RangeVec(0, Len(rows)), LAMBDA r : r \in Range(ret.groups[k]))


\* C14: sort / sort_by returns a new ordering and changes nothing else: a step in
\* which a slice's sort_by or a LargeTable's sort returns leaves the slice it was
\* called on, the sibling slice held beside it, the parent table's columns and
\* rows, the LargeTable's rows and columns and the file as they were.
C14_SortChangesNothingElse ==
    [][/\ (ret = NoRet /\ ret'.op = "sort_by") =>
              (slice' = slice /\ rows' = rows /\ columns' = columns)
       /\ (lt_ret = NoRet /\ lt_ret'.op = "sort") =>
              (lt_rows' = lt_rows /\ lt_columns' = lt_columns /\ file' = file)]_vars

\* a slice with a sibling has been sorted and the returned order differs from its own
C14_Witness ==
    /\ ret.op = "sort_by" /\ ret.status = "Ok"
    /\ slice.sibling.live
    /\ ret.rows # slice.rows
    /\ Range(ret.rows) = Range(slice.rows)


\* the text is one str::parse accepts for the declared numeric type
ParsesAs(t, value_type) ==
    CASE value_type = "Integer" -> ParseI64(t).ok
      [] value_type \in {"Float", "Number"} -> ParseF64(t).ok \/ ParseI64(t).ok
      [] OTHER -> TRUE

\* C17: Value::with_type(raw, t) reports a parse-error outcome to its caller
\* whenever raw cannot be parsed as the declared type t; it neither aborts nor
\* falls back to another variant or a default value.
C17_WithTypeReportsParseError ==
    (val_ret.op = "with_type" /\ ~ParsesAs(raw, val_ret.type)) => val_ret.status = "Err"

\* C18: each accessor try_as_X returns None for every Value whose variant is not X
\* and Some only for a Value of variant X.
C18_TryAsIsSomeOnlyForOwnVariant ==
    (val_ret.op = "try_as") => (val_ret.result.some <=> val_ret.self.tag = val_ret.want)

\* C19: for every Value v of a non-String variant that Value::new can produce,
\* Value::new of v's display string is v again, with the same variant.
C19_NewOfDisplayIsIdentity ==
    (val_ret.op = "reparse" /\ val_ret.self.tag # "String") => val_ret.value = val_ret.self


\* C15: on the memory-mapped table, append_row and add_column_with return an
\* error value to the caller (they do not abort) and leave the table unchanged.
C15_MMapMutationReturnsError ==
    (lt_ret.op \in {"append_row", "add_column_with"} /\ lt_ret.target = "MMapTable") =>
        /\ lt_ret.status = "Err"
        /\ lt_ret.table = lt_ret.before

\* C16: loading with a schema fails with an error whenever the schema's length
\* differs from the number of header columns, for every schema-taking loader; no
\* table is returned in that case.
C16_SchemaLengthMismatchFails ==
    (lt_ret.op = "load_with_schema" /\ Len(lt_ret.schema) # Len(file.header)) =>
        lt_ret.status = "Err"


\* C21: split_rows_at(mid) on a table or slice returns an error, and no slices,
\* whenever mid >= len(); when mid < len() it returns the two slices [0, mid) and
\* [mid, len()).
C21_SplitRefusesMidFromLen ==
    ret.op = "split_rows_at" =>
        IF ret.mid >= Len(SplitInput)
        THEN ret.status = "Err" /\ ret.left = <<>> /\ ret.right = <<>>
        ELSE /\ ret.status = "Ok"
             /\ ret.left = RangeVec(0, ret.mid)
             /\ ret.right = RangeVec(ret.mid, Len(SplitInput))


\* C22: a memory-mapped table built from a file of one header record and N >= 0
\* data records has N rows, row i being the (i+1)-th data record, and the header
\* is never a row; for LargeTable::load and MMapTable::map_file, N = 0 included.
C22_MappedRowsAreDataRecords ==
    (/\ lt_ret.op = "load"
     /\ lt_ret.loader \in {"MMapTable::map_file", "LargeTable::load"}
     /\ ~HasDuplicates(file.header)) =>
        /\ lt_ret.status = "Ok"
        /\ lt_ret.table.rows = [k \in 1..Len(file.records) |-> k]


\* the Values found at a column over all rows of the LargeTable
CellsAt(column) ==
    {RowAt(lt_rows[i], ColumnPosition(lt_columns, column)) : i \in 1..Len(lt_rows)}

\* C23: unique(column) returns exactly the set of distinct Values found at column
\* over all rows of the table, and this set is the key set of group_by(column) on
\* the same table.
C23_UniqueIsTheKeySet ==
    /\ (lt_ret.op = "unique" /\ lt_ret.status = "Ok") =>
           lt_ret.values = CellsAt(lt_ret.column)
    /\ (lt_ret.op = "group_by" /\ lt_ret.status = "Ok") =>
           /\ LtUniqueResult(lt_ret.column).status = "Ok"
           /\ DOMAIN lt_ret.groups = LtUniqueResult(lt_ret.column).values

\* unique has returned two Values for three rows, two of which hold one Integer
\* written in two ways
C23_Witness ==
    /\ lt_ret.op = "unique" /\ lt_ret.status = "Ok"
    /\ Len(lt_rows) = 3
    /\ Cardinality(lt_ret.values) = 2
    /\ \E i, j \in 1..3 :
          /\ CellText(lt_rows[i], ColumnPosition(lt_columns, lt_ret.column)) = <<"1">>
          /\ CellText(lt_rows[j], ColumnPosition(lt_columns, lt_ret.column)) = <<"0", "1">>


\* C24: a successful add_column_with(name, f) on a table with n rows appends name
\* as the last column and one generated value as the last cell of every row,
\* leaves all earlier cells and the row order unchanged, and invokes f exactly n
\* times, row k receiving what the k-th call returned.
C24_AddColumnAppendsOneCellPerRow ==
    [][(ret'.op = "add_column_with" /\ ret.op # "add_column_with"
           /\ ret'.status = "Ok") =>
          (/\ columns' = Append(columns, ret'.name)
           /\ ret'.calls = Len(rows)
           /\ Len(ret'.gen) = Len(rows)
           /\ rows' = [k \in 1..Len(rows) |-> Append(rows[k], ret'.gen[k])])]_vars

\* a column was added to a table of two or more rows, the generator returning
\* different values for the first two
C24_Witness ==
    /\ ret.op = "add_column_with" /\ ret.status = "Ok"
    /\ Len(rows) >= 2
    /\ ret.calls = Len(rows)
    /\ ret.gen[1] # ret.gen[2]
    /\ rows[1][Len(columns)] = ret.gen[1]


\* the text is a date-time candidate that the parser accepts
ParsesAsDateTime(t) ==
    /\ \A k \in 1..Len(t) : t[k] \in DtPlainChars \cup DtSeparators
    /\ \E k \in 1..Len(t) : t[k] \in DtSeparators
    /\ DtparseParse(t).ok

\* C25: when Value::new parses a field as a date-time, the result is a Time when
\* the year is the parser's zero sentinel, a Date only when hour, minute and
\* second are all zero, and a DateTime otherwise.
C25_DateOnlyAtMidnight ==
    (val_ret.op = "new" /\ ParsesAsDateTime(raw)) =>
        LET dt == DtparseParse(raw)
        IN  val_ret.value.tag =
                IF dt.year = 0 THEN "Time"
                ELSE IF dt.hour = 0 /\ dt.minute = 0 /\ dt.second = 0 THEN "Date"
                ELSE "DateTime"

\* the number of '.' in a text
Dots(t) == Cardinality({k \in 1..Len(t) : t[k] = "."})

\* the text is made of digits, spaces and AM/PM letters with at least one of
\* '-', '/', ':', and the parser accepts it
ParsesAsDateTimeOfAmPm(t) ==
    /\ \A k \in 1..Len(t) :
          t[k] \in Digits \cup {" ", "p", "P", "a", "A", "m", "M"} \cup DtSeparators
    /\ \E k \in 1..Len(t) : t[k] \in DtSeparators
    /\ DtparseParse(t).ok

C27_ColumnNamesDistinct ==
    scene = "owned" => ~HasDuplicates(columns)


\* C28: while a slice of a RowTable is alive, no append_row or add_column_with
\* call changes the table's rows or columns: the call is stopped before anything
\* is written, so what is seen through the slice never changes while it lives.
C28_NoWriteWhileSliceAlive ==
    [][/\ (Shared /\ ret = NoRet /\ ret'.op \in {"append_row", "add_column_with"}) =>
              (ret'.status # "Ok" /\ rows' = rows /\ columns' = columns)
       /\ Shared => (rows' = rows /\ columns' = columns)]_vars

\* append_row was given a row the table could take and was stopped because a
\* slice of the table is alive
C28_Witness ==
    /\ ret.op = "append_row" /\ ret.status = "Panic"
    /\ slice.live
    /\ Len(slice.rows) >= 1
    /\ Len(rows) < MaxRows


\* C29: no RowTable operation locks the table's mutex while the same call still
\* holds a guard on it, so every operation called from a single thread returns
\* instead of blocking forever.
C29_NoCallBlocksOnItsOwnGuard ==
    scene = "owned" => ret.status # "Deadlock"


\* C30: the result of sort / sort_by is a permutation of its input: it has the
\* same length and holds every row of the table or slice it was called on as many
\* times as the input does, for any comparator.
C30_SortIsAPermutation ==
    /\ (ret.op = "sort_by" /\ ret.status = "Ok") =>
           /\ Len(ret.rows) = Len(slice.rows)
           /\ \A r \in Range(slice.rows) \cup Range(ret.rows) :
                 Occurrences(ret.rows, r) = Occurrences(slice.rows, r)
    /\ (lt_ret.op = "sort" /\ lt_ret.status = "Ok") =>
           /\ Len(lt_ret.rows) = Len(lt_rows)
           /\ \A r \in Range(lt_rows) \cup Range(lt_ret.rows) :
                 Occurrences(lt_ret.rows, r) = Occurrences(lt_rows, r)

\* a slice of two or more rows was sorted with the comparator that is no order
C30_Witness ==
    /\ ret.op = "sort_by" /\ ret.status = "Ok"
    /\ ret.column = AlwaysLess
    /\ Len(slice.rows) >= 2
    /\ ret.rows[1] = slice.rows[Len(slice.rows)]

=============================================================================
